---- MODULE Spec2Model ----
(***************************************************************************)
(* Model of backend/app.py: the arithmetic utilities, the elliptic-curve   *)
(* group and the educational DSA / ECDSA sign and verify pipelines.        *)
(*                                                                         *)
(* A Python call is modelled as a call frame: op (the function running),   *)
(* pc (the next stage of its body), params (its arguments), env (the       *)
(* locals assigned so far), steps (the trace list it appends to) and ret   *)
(* (what it returned or raised).  effects logs the primitive calls the     *)
(* frame has made.  signed is what the caller keeps of a successful sign   *)
(* call in order to verify it afterwards.  sched is the state of the       *)
(* server that runs the calls: the frame of the thread that is not         *)
(* running, and the result kept of one call that ran with no other.        *)
(***************************************************************************)
EXTENDS Integers, Sequences, FiniteSets, TLC

VARIABLES op, pc, params, env, steps, ret, effects, signed, sched

vars == <<op, pc, params, env, steps, ret, effects, signed, sched>>

(***************************************************************************)
(* Bounds of the model.                                                    *)
(***************************************************************************)
\* mod_inverse / extended_gcd are applied to a in -MaxOperand..MaxOperand
MaxOperand == 14
\* ... and to moduli m in 1..MaxModulus
MaxModulus == 12
\* messages are the first NumMessages entries of MessageTable
NumMessages == 4
\* DSA: every triple (p, q, g) with 2 <= p <= MaxP, 2 <= q <= MaxQ, 0 <= g < p
MaxP == 7
MaxQ == 4
\* curve group: every curve (a, b, p) with 2 <= p <= MaxCurveP, 0 <= a, b < p,
\* and every pair (x, y) with 0 <= x, y <= p as a point
MaxCurveP == 5
\* ... and scalars k in -1..MaxScalar
MaxScalar == 9

(***************************************************************************)
(* Values shared by all frames.                                            *)
(***************************************************************************)
NoEnv == [n \in {} |-> 0]
NoRet == [kind |-> "none"]
NoSig == [kind |-> "none"]

\* the frame of a thread that serves no request
IdleFrame ==
    [op |-> "none", pc |-> "idle", params |-> NoEnv, env |-> NoEnv, steps |-> <<>>,
     ret |-> NoRet, effects |-> <<>>]

\* one thread besides the running one, no call suspended and no call kept
NoSched ==
    [peer |-> IdleFrame, preempted |-> FALSE, peer_preempted |-> FALSE,
     alone |-> [kind |-> "none"]]

\* A Python exception leaving the function: the local trace list is lost.
Raised(e) == [kind |-> "exception", exc |-> e]

(***************************************************************************)
(* MATHEMATICAL UTILITIES                                                  *)
(***************************************************************************)
\* the value of a singleton set: One({e(v) : v \in {d}}) is e with v bound to
\* the value of d, which is then computed once (LET d computes it at each use)
One(S) == CHOOSE v \in S : TRUE

RECURSIVE extended_gcd(_, _)
extended_gcd(a, b) ==
    IF a = 0 THEN <<b, 0, 1>>
    ELSE One({ LET gcd == rec[1]
                   x1  == rec[2]
                   y1  == rec[3]
                   x   == y1 - (b \div a) * x1
                   y   == x1
               IN  <<gcd, x, y>> : rec \in {extended_gcd(b % a, a)} })

\* Python's x % y for y # 0: the remainder has the sign of the divisor
floor_mod(x, y) == IF y > 0 THEN x % y ELSE -((-x) % (-y))

\* the argument pairs (a, b) of the calls extended_gcd(a, b) makes, itself
\* first, one pair per recursion level
RECURSIVE extended_gcd_calls(_, _)
extended_gcd_calls(a, b) ==
    IF a = 0 THEN << <<a, b>> >>
    ELSE << <<a, b>> >> \o extended_gcd_calls(floor_mod(b, a), a)

\* mod_inverse handing a to extended_gcd as it received it
mod_inverse_calls_signed(a, m) == extended_gcd_calls(a, m)

\* the calls of extended_gcd that mod_inverse(a, m) causes
mod_inverse_calls(a, m) == extended_gcd_calls(a % m, m)

\* mod_inverse returning x as extended_gcd gave it, without the final reduction
mod_inverse_unreduced(a, m) ==
    LET rec == extended_gcd(a % m, m)
    IN  IF rec[1] # 1
        THEN [exc |-> "ValueError", val |-> 0]
        ELSE [exc |-> "none", val |-> rec[2]]

\* mod_inverse without the gcd test
mod_inverse_unchecked(a, m) ==
    LET rec == extended_gcd(a % m, m)
    IN  [exc |-> "none", val |-> ((rec[2] % m) + m) % m]

\* [exc |-> "none", val |-> x] on return, [exc |-> "ValueError"] on raise
mod_inverse(a, m) ==
    LET rec == extended_gcd(a % m, m)
        gcd == rec[1]
        x   == rec[2]
    IN  IF gcd # 1
        THEN [exc |-> "ValueError", val |-> 0]
        ELSE [exc |-> "none", val |-> ((x % m) + m) % m]

\* pow(base, exp, mod) for exp >= 0 and mod >= 1 (the inputs of this model)
RECURSIVE pow_mod(_, _, _)
pow_mod(base, exp, mod) ==
    IF exp = 0 THEN 1 % mod
    ELSE LET half == pow_mod(base, exp \div 2, mod)
             sq   == (half * half) % mod
         IN  IF exp % 2 = 1 THEN (sq * (base % mod)) % mod ELSE sq

(***************************************************************************)
(* hash_message: SHA-256 of the message, read as a 256-bit integer.  The   *)
(* integer is kept as its sixteen 16-bit words, most significant first     *)
(* (hashlib's digests of the strings below); the only operation the        *)
(* pipelines apply to it is h % q, which IntMod computes exactly.          *)
(***************************************************************************)
MessageTable == <<"hi", "Test", "Hello", "d", "a", "ho">>

Messages == {MessageTable[i] : i \in 1..NumMessages}

hash_message(message) ==
    CASE message = "hi" -> <<36675, 17222, 25743, 27542, 57225, 56745, 453, 5995, 4262, 55353, 25053, 15386, 51339, 22962, 56370, 31396>>
      [] message = "Hello" -> <<6239, 36275, 8817, 65061, 62817, 42748, 37771, 11814, 17158, 60464, 20186, 20864, 2001, 30280, 9784, 6505>>
      [] message = "d" -> <<6316, 15987, 17392, 5769, 3153, 3731, 63797, 9745, 27097, 58357, 25923, 25641, 33551, 44809, 13556, 63716>>
      [] message = "Test" -> <<21294, 43709, 38260, 34829, 49014, 47544, 52224, 33580, 8358, 60433, 15720, 8857, 21773, 31342, 3892, 24101>>
      [] message = "a" -> <<51863, 33042, 51739, 48586, 64194, 12723, 39459, 56397, 42886, 61432, 5244, 20082, 47488, 30597, 45038, 18619>>
      [] message = "ho" -> <<43041, 50734, 33028, 63569, 40291, 39756, 2376, 44750, 25627, 5183, 26113, 64020, 22931, 47918, 11378, 39380>>

RECURSIVE IntModFrom(_, _, _, _)
IntModFrom(h, i, acc, q) ==
    IF i > Len(h) THEN acc
    ELSE IntModFrom(h, i + 1, (acc * 65536 + h[i]) % q, q)

\* h % q for the 256-bit integer h
IntMod(h, q) == IntModFrom(h, 1, 0, q)

(***************************************************************************)
(* The caller.  A frame starts from the idle state; once a call is done    *)
(* the caller reads ret and discards it (nothing outlives a call), or, for *)
(* a successful sign, passes the signature on to verify.                   *)
(***************************************************************************)
Idle == pc = "idle"

Init ==
    /\ op = "none"
    /\ pc = "idle"
    /\ params = NoEnv
    /\ env = NoEnv
    /\ steps = <<>>
    /\ ret = NoRet
    /\ effects = <<>>
    /\ signed = NoSig
    /\ sched = NoSched

Discard ==
    /\ pc = "done"
    /\ op' = "none"
    /\ pc' = "idle"
    /\ params' = NoEnv
    /\ env' = NoEnv
    /\ steps' = <<>>
    /\ ret' = NoRet
    /\ effects' = <<>>
    /\ signed' = NoSig
    /\ UNCHANGED sched

\* a call frame is entered: no locals, an empty trace list (steps = [])
Enter(f, args) ==
    /\ op' = f
    /\ params' = args
    /\ env' = NoEnv
    /\ steps' = <<>>
    /\ ret' = NoRet
    /\ effects' = <<>>

(***************************************************************************)
(* Arithmetic calls made directly by a caller.                             *)
(***************************************************************************)
Call_mod_inverse ==
    /\ Idle
    /\ \E a \in -MaxOperand..MaxOperand, m \in 1..MaxModulus :
         /\ params' = [a |-> a, m |-> m]
         /\ LET inv == mod_inverse(a, m)
            IN  ret' = IF inv.exc = "none"
                       THEN [kind |-> "value", val |-> inv.val]
                       ELSE Raised(inv.exc)
         /\ env' = [calls |-> mod_inverse_calls(a, m)]
    /\ op' = "mod_inverse"
    /\ pc' = "done"
    /\ UNCHANGED <<steps, effects, signed>>
    /\ UNCHANGED sched

Call_extended_gcd ==
    /\ Idle
    /\ \E a \in 0..MaxOperand, b \in 0..MaxOperand :
         /\ params' = [a |-> a, b |-> b]
         /\ ret' = [kind |-> "value", val |-> extended_gcd(a, b)]
         /\ env' = [calls |-> extended_gcd_calls(a, b)]
    /\ op' = "extended_gcd"
    /\ pc' = "done"
    /\ UNCHANGED <<steps, effects, signed>>
    /\ UNCHANGED sched

NextArith ==
    \/ Call_mod_inverse
    \/ Call_extended_gcd
    \/ Discard

SpecArith == Init /\ [][NextArith]_vars

(***************************************************************************)
(* DSA IMPLEMENTATION (Educational Mode)                                   *)
(*                                                                         *)
(* Inputs: every (p, q, g) within MaxP, MaxQ, valid domain parameters or   *)
(* not, and the two documented parameter sets with p = 23, q = 11; x and k *)
(* range over 0..q, which holds the values sign is meant for (1..q-1) and  *)
(* the two that are not invertible modulo q.                               *)
(***************************************************************************)
SmallDsaDomains ==
    {d \in (2..MaxP) \X (2..MaxQ) \X (0..(MaxP - 1)) : d[3] < d[1]}

DocumentedDsaDomains == {<<23, 11, 4>>, <<23, 11, 2>>}

DsaDomains == SmallDsaDomains \cup DocumentedDsaDomains

ErrRZero == "Invalid signature: r = 0. Choose a different k."
ErrSZero == "Invalid signature: s = 0. Choose a different k."

Call_dsa_sign ==
    /\ Idle
    /\ \E d \in DsaDomains, message \in Messages :
         \E x \in 0..d[2], k \in 0..d[2] :
            Enter("dsa_sign", [p |-> d[1], q |-> d[2], g |-> d[3],
                               x |-> x, k |-> k, message |-> message])
    /\ pc' = "step1"
    /\ signed' = NoSig
    /\ UNCHANGED sched

\* STEP 1: y = g^x mod p
DsaSignStep1 ==
    /\ op = "dsa_sign"
    /\ pc = "step1"
    /\ LET y == pow_mod(params.g, params.x, params.p)
       IN  /\ env' = env @@ [y |-> y]
           /\ steps' = Append(steps, [step |-> 1, title |-> "Compute Public Key", result |-> y])
    /\ effects' = Append(effects, "pow_mod")
    /\ pc' = "step2"
    /\ UNCHANGED <<op, params, ret, signed>>
    /\ UNCHANGED sched

\* STEP 2: h = H(m), h mod q
DsaSignStep2 ==
    /\ op = "dsa_sign"
    /\ pc = "step2"
    /\ LET h == hash_message(params.message)
           h_mod_q == IntMod(h, params.q)
       IN  /\ env' = env @@ [h_mod_q |-> h_mod_q]
           /\ steps' = Append(steps, [step |-> 2, title |-> "Hash Message", result |-> h_mod_q])
    /\ effects' = Append(effects, "hash_message")
    /\ pc' = "step3"
    /\ UNCHANGED <<op, params, ret, signed>>
    /\ UNCHANGED sched

\* r without the reduction modulo q
dsa_r_unreduced(g, k, p, q) == pow_mod(g, k, p)

\* r = (g^k mod p) mod q
dsa_r(g, k, p, q) ==
    LET g_k_mod_p == pow_mod(g, k, p)
    IN  g_k_mod_p % q

\* STEP 3: r = (g^k mod p) mod q; r = 0 returns the error with the steps so
\* far.  Nothing is appended to steps for this stage.
DsaSignStep3 ==
    /\ op = "dsa_sign"
    /\ pc = "step3"
    /\ LET r == dsa_r(params.g, params.k, params.p, params.q)
       IN  /\ env' = env @@ [r |-> r]
           /\ IF r = 0
              THEN /\ ret' = [kind |-> "error", error |-> ErrRZero, steps |-> steps]
                   /\ pc' = "done"
              ELSE /\ ret' = ret
                   /\ pc' = "step4"
    /\ effects' = Append(effects, "pow_mod")
    /\ UNCHANGED <<op, params, steps, signed>>
    /\ UNCHANGED sched

\* STEP 4: k_inv = mod_inverse(k, q), whose ValueError is not caught
DsaSignStep4 ==
    /\ op = "dsa_sign"
    /\ pc = "step4"
    /\ LET k_inv == mod_inverse(params.k, params.q)
       IN  IF k_inv.exc # "none"
           THEN /\ ret' = Raised(k_inv.exc)
                /\ pc' = "done"
                /\ UNCHANGED <<env, steps>>
           ELSE /\ env' = env @@ [k_inv |-> k_inv.val]
                /\ steps' = Append(steps, [step |-> 4, title |-> "Compute Modular Inverse of k",
                                           result |-> k_inv.val])
                /\ ret' = ret
                /\ pc' = "step5"
    /\ effects' = Append(effects, "mod_inverse")
    /\ UNCHANGED <<op, params, signed>>
    /\ UNCHANGED sched

\* s = k^(-1) * (H(m) + x*r) mod q
dsa_s(k_inv, h_mod_q, x, r, q) ==
    LET xr == (x * r) % q
        h_plus_xr == (h_mod_q + xr) % q
    IN  (k_inv * h_plus_xr) % q

\* dsa_sign_return that returns the signature whatever s is
dsa_sign_return_unchecked(r, s, y, trace) ==
    [kind |-> "success", signature |-> [r |-> r, s |-> s], public_key |-> y, steps |-> trace]

\* the s = 0 test and the two returns that follow it
dsa_sign_return(r, s, y, trace) ==
    IF s = 0
    THEN [kind |-> "error", error |-> ErrSZero, steps |-> trace]
    ELSE [kind |-> "success", signature |-> [r |-> r, s |-> s], public_key |-> y, steps |-> trace]

\* STEP 5: s, appended before it is tested; then the result
DsaSignStep5 ==
    /\ op = "dsa_sign"
    /\ pc = "step5"
    /\ LET s == dsa_s(env.k_inv, env.h_mod_q, params.x, env.r, params.q)
           trace == Append(steps, [step |-> 5, title |-> "Compute s", result |-> s])
       IN  /\ env' = env @@ [s |-> s]
           /\ steps' = trace
           /\ ret' = dsa_sign_return(env.r, s, env.y, trace)
    /\ pc' = "done"
    /\ UNCHANGED <<op, params, effects, signed>>
    /\ UNCHANGED sched

\* verify called on what a successful sign returned, with any message
Call_dsa_verify_signed ==
    /\ op = "dsa_sign"
    /\ pc = "done"
    /\ ret.kind = "success"
    /\ \E message \in Messages :
         Enter("dsa_verify", [p |-> params.p, q |-> params.q, g |-> params.g,
                              y |-> ret.public_key, r |-> ret.signature.r,
                              s |-> ret.signature.s, message |-> message])
    /\ pc' = "step1"
    /\ signed' = [kind |-> "dsa_sign", x |-> params.x, k |-> params.k,
                  message |-> params.message]
    /\ UNCHANGED sched

\* verify called on any public value and any pair (r, s)
Call_dsa_verify ==
    /\ Idle
    /\ \E d \in SmallDsaDomains, message \in Messages :
         \E y \in 0..(d[1] - 1), r \in 0..d[2], s \in 0..d[2] :
            Enter("dsa_verify", [p |-> d[1], q |-> d[2], g |-> d[3],
                                 y |-> y, r |-> r, s |-> s, message |-> message])
    /\ pc' = "step1"
    /\ signed' = NoSig
    /\ UNCHANGED sched

\* STEP 1: hash
DsaVerifyStep1 ==
    /\ op = "dsa_verify"
    /\ pc = "step1"
    /\ LET h == hash_message(params.message)
           h_mod_q == IntMod(h, params.q)
       IN  /\ env' = env @@ [h_mod_q |-> h_mod_q]
           /\ steps' = Append(steps, [step |-> 1, title |-> "Hash Message", result |-> h_mod_q])
    /\ effects' = Append(effects, "hash_message")
    /\ pc' = "step2"
    /\ UNCHANGED <<op, params, ret, signed>>
    /\ UNCHANGED sched

\* STEP 2: w = mod_inverse(s, q), whose ValueError is not caught
DsaVerifyStep2 ==
    /\ op = "dsa_verify"
    /\ pc = "step2"
    /\ LET w == mod_inverse(params.s, params.q)
       IN  IF w.exc # "none"
           THEN /\ ret' = Raised(w.exc)
                /\ pc' = "done"
                /\ UNCHANGED <<env, steps>>
           ELSE /\ env' = env @@ [w |-> w.val]
                /\ steps' = Append(steps, [step |-> 2, title |-> "Compute w = s^(-1) mod q",
                                           result |-> w.val])
                /\ ret' = ret
                /\ pc' = "step3"
    /\ effects' = Append(effects, "mod_inverse")
    /\ UNCHANGED <<op, params, signed>>
    /\ UNCHANGED sched

\* u1 with the hash left out
dsa_u1_no_hash(h_mod_q, w, q) == w % q

\* u1 = H(m) * w mod q
dsa_u1(h_mod_q, w, q) == (h_mod_q * w) % q

\* STEP 3: u1
DsaVerifyStep3 ==
    /\ op = "dsa_verify"
    /\ pc = "step3"
    /\ LET u1 == dsa_u1(env.h_mod_q, env.w, params.q)
       IN  /\ env' = env @@ [u1 |-> u1]
           /\ steps' = Append(steps, [step |-> 3, title |-> "Compute u1", result |-> u1])
    /\ pc' = "step4"
    /\ UNCHANGED <<op, params, ret, effects, signed>>
    /\ UNCHANGED sched

\* STEP 4: u2 = r * w mod q
DsaVerifyStep4 ==
    /\ op = "dsa_verify"
    /\ pc = "step4"
    /\ LET u2 == (params.r * env.w) % params.q
       IN  /\ env' = env @@ [u2 |-> u2]
           /\ steps' = Append(steps, [step |-> 4, title |-> "Compute u2", result |-> u2])
    /\ pc' = "step5"
    /\ UNCHANGED <<op, params, ret, effects, signed>>
    /\ UNCHANGED sched

\* v without the final reduction modulo q
dsa_v_unreduced(g, y, u1, u2, p, q) ==
    (pow_mod(g, u1, p) * pow_mod(y, u2, p)) % p

\* v = (g^u1 * y^u2 mod p) mod q
dsa_v(g, y, u1, u2, p, q) ==
    LET g_u1 == pow_mod(g, u1, p)
        y_u2 == pow_mod(y, u2, p)
        g_y_product == (g_u1 * y_u2) % p
    IN  g_y_product % q

\* STEP 5: v
DsaVerifyStep5 ==
    /\ op = "dsa_verify"
    /\ pc = "step5"
    /\ LET v == dsa_v(params.g, params.y, env.u1, env.u2, params.p, params.q)
       IN  /\ env' = env @@ [v |-> v]
           /\ steps' = Append(steps, [step |-> 5, title |-> "Compute v", result |-> v])
    /\ effects' = effects \o <<"pow_mod", "pow_mod">>
    /\ pc' = "step6"
    /\ UNCHANGED <<op, params, ret, signed>>
    /\ UNCHANGED sched

\* STEP 6: is_valid = (v == r), and the result
DsaVerifyStep6 ==
    /\ op = "dsa_verify"
    /\ pc = "step6"
    /\ LET is_valid == (env.v = params.r)
           trace == Append(steps, [step |-> 6, title |-> "Verify Signature", result |-> is_valid])
       IN  /\ steps' = trace
           /\ ret' = [kind |-> "success", valid |-> is_valid, verification_value |-> env.v,
                      expected_value |-> params.r, steps |-> trace]
    /\ pc' = "done"
    /\ UNCHANGED <<op, params, env, effects, signed>>
    /\ UNCHANGED sched

NextDsa ==
    \/ Call_dsa_sign
    \/ DsaSignStep1
    \/ DsaSignStep2
    \/ DsaSignStep3
    \/ DsaSignStep4
    \/ DsaSignStep5
    \/ Call_dsa_verify_signed
    \/ Call_dsa_verify
    \/ DsaVerifyStep1
    \/ DsaVerifyStep2
    \/ DsaVerifyStep3
    \/ DsaVerifyStep4
    \/ DsaVerifyStep5
    \/ DsaVerifyStep6
    \/ Discard

SpecDsa == Init /\ [][NextDsa]_vars

(***************************************************************************)
(* ELLIPTIC CURVE UTILITIES                                                *)
(*                                                                         *)
(* A curve is [a, b, p]; a point is the pair <<x, y>> or None, the point   *)
(* at infinity.  point_add and scalar_multiply return [exc, val, invs]:    *)
(* the exception raised if any, the point returned, and the denominators   *)
(* they passed to mod_inverse, in order.                                   *)
(***************************************************************************)
None == <<>>

\* is_on_curve with the a*x term of the curve equation left out
is_on_curve_without_ax(curve, point) ==
    IF point = None THEN TRUE
    ELSE (point[2] * point[2] - (point[1] * point[1] * point[1] + curve.b)) % curve.p = 0

is_on_curve(curve, point) ==
    IF point = None THEN TRUE
    ELSE LET x == point[1]
             y == point[2]
         IN  (y * y - (x * x * x + curve.a * x + curve.b)) % curve.p = 0

PointOk(point, invs) == [exc |-> "none", val |-> point, invs |-> invs]

\* point_from_slope with x3 = lam^2 - x1, without x2
point_from_slope_x3_short(curve, P, Q, numerator, denominator) ==
    LET inv == mod_inverse(denominator, curve.p)
    IN  IF inv.exc # "none"
        THEN [exc |-> inv.exc, val |-> None, invs |-> <<denominator>>]
        ELSE LET lam == (numerator * inv.val) % curve.p
                 x3  == (lam * lam - P[1]) % curve.p
                 y3  == (lam * (P[1] - x3) - P[2]) % curve.p
             IN  PointOk(<<x3, y3>>, <<denominator>>)

\* point_from_slope with y3 taken from Q's ordinate
point_from_slope_y2(curve, P, Q, numerator, denominator) ==
    LET inv == mod_inverse(denominator, curve.p)
    IN  IF inv.exc # "none"
        THEN [exc |-> inv.exc, val |-> None, invs |-> <<denominator>>]
        ELSE LET lam == (numerator * inv.val) % curve.p
                 x3  == (lam * lam - P[1] - Q[1]) % curve.p
                 y3  == (lam * (P[1] - x3) - Q[2]) % curve.p
             IN  PointOk(<<x3, y3>>, <<denominator>>)

\* lines 400 / 410 and 415-418: lam from the slope, then (x3, y3)
point_from_slope(curve, P, Q, numerator, denominator) ==
    LET inv == mod_inverse(denominator, curve.p)
    IN  IF inv.exc # "none"
        THEN [exc |-> inv.exc, val |-> None, invs |-> <<denominator>>]
        ELSE LET lam == (numerator * inv.val) % curve.p
                 x3  == (lam * lam - P[1] - Q[1]) % curve.p
                 y3  == (lam * (P[1] - x3) - P[2]) % curve.p
             IN  PointOk(<<x3, y3>>, <<denominator>>)

\* point_add whose first test returns P, not Q
point_add_identity_slip(curve, P, Q) ==
    IF P = None THEN PointOk(P, <<>>)
    ELSE IF Q = None THEN PointOk(P, <<>>)
    ELSE point_from_slope(curve, P, Q, (Q[2] - P[2]) % curve.p, (Q[1] - P[1]) % curve.p)

point_add(curve, P, Q) ==
    IF P = None THEN PointOk(Q, <<>>)
    ELSE IF Q = None THEN PointOk(P, <<>>)
    ELSE LET x1 == P[1]
             y1 == P[2]
             x2 == Q[1]
             y2 == Q[2]
         IN  IF P = Q
             THEN IF y1 = 0
                  THEN PointOk(None, <<>>)
                  ELSE point_from_slope(curve, P, Q,
                                        (3 * x1 * x1 + curve.a) % curve.p,
                                        (2 * y1) % curve.p)
             ELSE IF x1 = x2
                  THEN PointOk(None, <<>>)
                  ELSE point_from_slope(curve, P, Q,
                                        (y2 - y1) % curve.p,
                                        (x2 - x1) % curve.p)

\* len(bin(k)[2:]) for k >= 1
RECURSIVE BitLength(_)
BitLength(k) == IF k <= 1 THEN 1 ELSE 1 + BitLength(k \div 2)

\* reversed(binary)[i]
Bit(k, i) == (k \div (2 ^ i)) % 2

\* the for loop of scalar_multiply from iteration i on, with the loop's
\* variables result and temp, the trace records and the inverses so far;
\* held lists the pairs (result, temp) the loop has held
RECURSIVE scalar_multiply_loop(_, _, _, _, _, _, _, _, _)
scalar_multiply_loop(curve, k, show_steps, i, result, temp, trace, invs, held) ==
    IF i >= BitLength(k)
    THEN [exc |-> "none", val |-> result, steps |-> trace, invs |-> invs, held |-> held]
    ELSE One({
         LET bit  == Bit(k, i)
             last == i >= BitLength(k) - 1
             trace1 == IF bit = 1 /\ show_steps
                       THEN Append(trace, [iteration |-> i, bit |-> bit, operation |-> "Add",
                                           result |-> add.val])
                       ELSE trace
             trace2 == IF ~last /\ show_steps /\ bit = 0
                       THEN Append(trace1, [iteration |-> i, bit |-> bit,
                                            operation |-> "Skip (bit=0)"])
                       ELSE trace1
         IN  IF add.exc # "none"
             THEN [exc |-> add.exc, val |-> None, steps |-> <<>>, invs |-> invs \o add.invs,
                   held |-> held]
             ELSE IF dbl.exc # "none"
             THEN [exc |-> dbl.exc, val |-> None, steps |-> <<>>,
                   invs |-> invs \o add.invs \o dbl.invs,
                   held |-> Append(held, <<add.val, temp>>)]
             ELSE scalar_multiply_loop(curve, k, show_steps, i + 1, add.val, dbl.val, trace2,
                                       invs \o add.invs \o dbl.invs,
                                       Append(held, <<add.val, dbl.val>>)) :
         \* result = self.point_add(result, temp) if the bit is 1
         add \in {IF Bit(k, i) = 1 THEN point_add(curve, result, temp)
                                   ELSE PointOk(result, <<>>)},
         \* temp = self.point_add(temp, temp) except on the last iteration
         dbl \in {IF i >= BitLength(k) - 1 THEN PointOk(temp, <<>>)
                                           ELSE point_add(curve, temp, temp)} })

\* scalar_multiply whose edge case returns P, not the point at infinity
scalar_multiply_edge_P(curve, k, P, show_steps) ==
    IF k = 0 \/ P = None
    THEN [exc |-> "none", val |-> P, steps |-> <<>>, invs |-> <<>>, held |-> <<>>]
    ELSE IF k < 0
    THEN [exc |-> "ValueError", val |-> None, steps |-> <<>>, invs |-> <<>>, held |-> <<>>]
    ELSE scalar_multiply_loop(curve, k, show_steps, 0, None, P,
                              IF show_steps THEN <<[info |-> "binary", k |-> k]>> ELSE <<>>,
                              <<>>, <<<<None, P>>>>)

\* returns [exc, val, steps, invs, held]; steps is the list returned with
\* show_steps
scalar_multiply(curve, k, P, show_steps) ==
    IF k = 0 \/ P = None
    THEN [exc |-> "none", val |-> None, steps |-> <<>>, invs |-> <<>>, held |-> <<>>]
    ELSE IF k < 0
    THEN [exc |-> "ValueError", val |-> None, steps |-> <<>>, invs |-> <<>>, held |-> <<>>]
    ELSE scalar_multiply_loop(curve, k, show_steps, 0, None, P,
                              IF show_steps THEN <<[info |-> "binary", k |-> k]>> ELSE <<>>,
                              <<>>, <<<<None, P>>>>)

(***************************************************************************)
(* Curve calls made directly by a caller.                                  *)
(***************************************************************************)
Curves ==
    {[a |-> c[1], b |-> c[2], p |-> c[3]] :
        c \in {t \in (0..(MaxCurveP - 1)) \X (0..(MaxCurveP - 1)) \X (2..MaxCurveP) :
                 t[1] < t[3] /\ t[2] < t[3]}}

\* None, and every pair of coordinates in 0..p (reduced or not, on the curve or not)
Points(curve) == {None} \cup ((0..curve.p) \X (0..curve.p))

Call_point_add ==
    /\ Idle
    /\ \E curve \in Curves :
         \E P \in Points(curve), Q \in Points(curve) :
            /\ params' = [curve |-> curve, P |-> P, Q |-> Q]
            /\ LET sum == point_add(curve, P, Q)
               IN  /\ ret' = IF sum.exc = "none"
                             THEN [kind |-> "value", val |-> sum.val]
                             ELSE Raised(sum.exc)
                   /\ effects' = sum.invs
    /\ op' = "point_add"
    /\ pc' = "done"
    /\ UNCHANGED <<env, steps, signed>>
    /\ UNCHANGED sched

Call_scalar_multiply ==
    /\ Idle
    /\ \E curve \in Curves, k \in -1..MaxScalar, show_steps \in BOOLEAN :
         \E P \in {pt \in Points(curve) : is_on_curve(curve, pt)} :
            /\ params' = [curve |-> curve, k |-> k, P |-> P, show_steps |-> show_steps]
            /\ LET prod == scalar_multiply(curve, k, P, show_steps)
               IN  /\ ret' = IF prod.exc = "none"
                             THEN [kind |-> "value", val |-> prod.val, steps |-> prod.steps]
                             ELSE Raised(prod.exc)
                   /\ effects' = prod.invs
                   /\ env' = [held |-> prod.held]
    /\ op' = "scalar_multiply"
    /\ pc' = "done"
    /\ UNCHANGED <<steps, signed>>
    /\ UNCHANGED sched

NextCurve ==
    \/ Call_point_add
    \/ Call_scalar_multiply
    \/ Discard

SpecCurve == Init /\ [][NextCurve]_vars

(***************************************************************************)
(* ECDSA IMPLEMENTATION (Educational Mode)                                 *)
(*                                                                         *)
(* Inputs: the documented tiny curve y^2 = x^3 + 2x + 3 (mod 97) with      *)
(* G = (3, 6), n = 5, and the curve y^2 = x^3 + 2x + 1 (mod 5), whose      *)
(* group has prime order 7; with them a generator off the curve, one with  *)
(* an unreduced coordinate, and an order n that is not the order of G.     *)
(* d and k range over -1..n+1: the values sign is meant for (1..n-1),      *)
(* multiples of n, and a negative scalar.                                  *)
(***************************************************************************)
EcdsaDomain(a, b, p, Gx, Gy, n) ==
    [a |-> a, b |-> b, p |-> p, Gx |-> Gx, Gy |-> Gy, n |-> n]

EcdsaDomains ==
    { EcdsaDomain(2, 3, 97, 3, 6, 5),
      EcdsaDomain(2, 3, 97, 3, 7, 5),
      EcdsaDomain(2, 3, 97, 3, 103, 5),
      EcdsaDomain(2, 1, 5, 0, 1, 7),
      EcdsaDomain(2, 1, 5, 1, 2, 7),
      EcdsaDomain(2, 1, 5, 1, 1, 7),
      EcdsaDomain(2, 1, 5, 1, 2, 6) }

\* public points a caller may hand to verify: the points of the curve, and
\* one pair that is not on it
PublicPoints(dom) ==
    IF dom.p = 97
    THEN {<<3, 6>>, <<80, 10>>, <<80, 87>>, <<3, 91>>, <<3, 7>>}
    ELSE {<<0, 1>>, <<0, 4>>, <<1, 2>>, <<1, 3>>, <<3, 2>>, <<3, 3>>, <<1, 1>>}

ErrGeneratorSign == "Generator point G is not on the curve y^2 = x^3 + ax + b (mod p)"
ErrGenerator == "Generator point G is not on the curve"
ErrPublicKey == "Public key point Q is not on the curve"
ErrNonce == "Invalid nonce: k x G resulted in point at infinity"
ErrU1G == "u1 x G resulted in point at infinity"
ErrU2Q == "u2 x Q resulted in point at infinity"
ErrSum == "u1 x G + u2 x Q resulted in point at infinity"

\* curve = EllipticCurve(a, b, p)
CurveOf(args) == [a |-> args.a, b |-> args.b, p |-> args.p]

\* mult_steps[:5] if len(mult_steps) > 5 else mult_steps
First5(mult_steps) ==
    IF Len(mult_steps) > 5 THEN SubSeq(mult_steps, 1, 5) ELSE mult_steps

Call_ecdsa_sign ==
    /\ Idle
    /\ \E dom \in EcdsaDomains, message \in Messages :
         \E d \in -1..(dom.n + 1), k \in -1..(dom.n + 1) :
            Enter("ecdsa_sign", dom @@ [d |-> d, k |-> k, message |-> message])
    /\ pc' = "step0"
    /\ signed' = NoSig
    /\ UNCHANGED sched

\* STEP 0: the generator must be on the curve
EcdsaSignStep0 ==
    /\ op = "ecdsa_sign"
    /\ pc = "step0"
    /\ LET G == <<params.Gx, params.Gy>>
       IN  IF ~is_on_curve(CurveOf(params), G)
           THEN /\ ret' = [kind |-> "error", error |-> ErrGeneratorSign, point |-> G,
                           steps |-> <<>>]
                /\ pc' = "done"
                /\ UNCHANGED <<env, steps>>
           ELSE /\ env' = env @@ [G |-> G]
                /\ steps' = Append(steps, [step |-> 0, title |-> "Curve Definition", result |-> G])
                /\ ret' = ret
                /\ pc' = "step1"
    /\ UNCHANGED <<op, params, effects, signed>>
    /\ UNCHANGED sched

\* STEP 1: Q = d x G
EcdsaSignStep1 ==
    /\ op = "ecdsa_sign"
    /\ pc = "step1"
    /\ LET Q == scalar_multiply(CurveOf(params), params.d, env.G, TRUE)
       IN  IF Q.exc # "none"
           THEN /\ ret' = Raised(Q.exc)
                /\ pc' = "done"
                /\ UNCHANGED <<env, steps>>
           ELSE /\ env' = env @@ [Q |-> Q.val]
                /\ steps' = Append(steps, [step |-> 1, title |-> "Compute Public Key",
                                           result |-> Q.val,
                                           scalar_multiplication_steps |-> First5(Q.steps),
                                           total_operations |-> Len(Q.steps)])
                /\ ret' = ret
                /\ pc' = "step2"
    /\ effects' = Append(effects, "scalar_multiply")
    /\ UNCHANGED <<op, params, signed>>
    /\ UNCHANGED sched

\* STEP 2: e = H(m) mod n
EcdsaSignStep2 ==
    /\ op = "ecdsa_sign"
    /\ pc = "step2"
    /\ LET h == hash_message(params.message)
           e == IntMod(h, params.n)
       IN  /\ env' = env @@ [e |-> e]
           /\ steps' = Append(steps, [step |-> 2, title |-> "Hash Message", result |-> e])
    /\ effects' = Append(effects, "hash_message")
    /\ pc' = "step3"
    /\ UNCHANGED <<op, params, ret, signed>>
    /\ UNCHANGED sched

\* STEP 3: kG = k x G, which must not be the point at infinity
EcdsaSignStep3 ==
    /\ op = "ecdsa_sign"
    /\ pc = "step3"
    /\ LET kG == scalar_multiply(CurveOf(params), params.k, env.G, TRUE)
       IN  IF kG.exc # "none"
           THEN /\ ret' = Raised(kG.exc)
                /\ pc' = "done"
                /\ UNCHANGED <<env, steps>>
           ELSE IF kG.val = None
           THEN /\ ret' = [kind |-> "error", error |-> ErrNonce, steps |-> steps]
                /\ pc' = "done"
                /\ env' = env @@ [kG |-> kG.val]
                /\ UNCHANGED steps
           ELSE /\ env' = env @@ [kG |-> kG.val]
                /\ steps' = Append(steps, [step |-> 3, title |-> "Compute k x G",
                                           result |-> kG.val,
                                           scalar_multiplication_steps |-> First5(kG.steps)])
                /\ ret' = ret
                /\ pc' = "step4"
    /\ effects' = Append(effects, "scalar_multiply")
    /\ UNCHANGED <<op, params, signed>>
    /\ UNCHANGED sched

\* STEP 4: r = x1 mod n; r = 0 returns the error.  Nothing is appended to steps.
EcdsaSignStep4 ==
    /\ op = "ecdsa_sign"
    /\ pc = "step4"
    /\ LET x1 == env.kG[1]
           r == x1 % params.n
       IN  /\ env' = env @@ [r |-> r]
           /\ IF r = 0
              THEN /\ ret' = [kind |-> "error", error |-> ErrRZero, steps |-> steps]
                   /\ pc' = "done"
              ELSE /\ ret' = ret
                   /\ pc' = "step5"
    /\ UNCHANGED <<op, params, steps, effects, signed>>
    /\ UNCHANGED sched

\* STEP 5: k_inv = mod_inverse(k, n), whose ValueError is not caught
EcdsaSignStep5 ==
    /\ op = "ecdsa_sign"
    /\ pc = "step5"
    /\ LET k_inv == mod_inverse(params.k, params.n)
       IN  IF k_inv.exc # "none"
           THEN /\ ret' = Raised(k_inv.exc)
                /\ pc' = "done"
                /\ UNCHANGED <<env, steps>>
           ELSE /\ env' = env @@ [k_inv |-> k_inv.val]
                /\ steps' = Append(steps, [step |-> 5, title |-> "Compute Modular Inverse of k",
                                           result |-> k_inv.val])
                /\ ret' = ret
                /\ pc' = "step6"
    /\ effects' = Append(effects, "mod_inverse")
    /\ UNCHANGED <<op, params, signed>>
    /\ UNCHANGED sched

\* s = k^(-1) * (e + d*r) mod n
ecdsa_s(k_inv, e, d, r, n) ==
    LET dr == (d * r) % n
        e_plus_dr == (e + dr) % n
    IN  (k_inv * e_plus_dr) % n

\* ecdsa_sign_return that returns the signature whatever s is
ecdsa_sign_return_unchecked(r, s, Q, trace) ==
    IF Q = None
    THEN Raised("TypeError")
    ELSE [kind |-> "success", signature |-> [r |-> r, s |-> s],
          public_key |-> [Qx |-> Q[1], Qy |-> Q[2]], steps |-> trace]

\* the s = 0 test and the two returns that follow it; Q[0] of the point at
\* infinity (None) is a TypeError
ecdsa_sign_return(r, s, Q, trace) ==
    IF s = 0
    THEN [kind |-> "error", error |-> ErrSZero, steps |-> trace]
    ELSE IF Q = None
    THEN Raised("TypeError")
    ELSE [kind |-> "success", signature |-> [r |-> r, s |-> s],
          public_key |-> [Qx |-> Q[1], Qy |-> Q[2]], steps |-> trace]

\* STEP 6: s, appended before it is tested; then the result
EcdsaSignStep6 ==
    /\ op = "ecdsa_sign"
    /\ pc = "step6"
    /\ LET s == ecdsa_s(env.k_inv, env.e, params.d, env.r, params.n)
           trace == Append(steps, [step |-> 6, title |-> "Compute s", result |-> s])
       IN  /\ env' = env @@ [s |-> s]
           /\ steps' = trace
           /\ ret' = ecdsa_sign_return(env.r, s, env.Q, trace)
    /\ pc' = "done"
    /\ UNCHANGED <<op, params, effects, signed>>
    /\ UNCHANGED sched

\* verify called on what a successful sign returned, with any message
Call_ecdsa_verify_signed ==
    /\ op = "ecdsa_sign"
    /\ pc = "done"
    /\ ret.kind = "success"
    /\ \E message \in Messages :
         Enter("ecdsa_verify",
               [a |-> params.a, b |-> params.b, p |-> params.p,
                Gx |-> params.Gx, Gy |-> params.Gy, n |-> params.n,
                Qx |-> ret.public_key.Qx, Qy |-> ret.public_key.Qy,
                r |-> ret.signature.r, s |-> ret.signature.s, message |-> message])
    /\ pc' = "step0"
    /\ signed' = [kind |-> "ecdsa_sign", d |-> params.d, k |-> params.k,
                  message |-> params.message]
    /\ UNCHANGED sched

\* verify called on any public point and any pair (r, s)
Call_ecdsa_verify ==
    /\ Idle
    /\ \E dom \in EcdsaDomains, message \in Messages :
         \E Q \in PublicPoints(dom), r \in 0..dom.n, s \in 0..dom.n :
            Enter("ecdsa_verify",
                  dom @@ [Qx |-> Q[1], Qy |-> Q[2], r |-> r, s |-> s, message |-> message])
    /\ pc' = "step0"
    /\ signed' = NoSig
    /\ UNCHANGED sched

\* STEP 0: G, then Q, must be on the curve
EcdsaVerifyStep0 ==
    /\ op = "ecdsa_verify"
    /\ pc = "step0"
    /\ LET G == <<params.Gx, params.Gy>>
           Q == <<params.Qx, params.Qy>>
       IN  IF ~is_on_curve(CurveOf(params), G)
           THEN /\ ret' = [kind |-> "error", error |-> ErrGenerator, point |-> G, steps |-> <<>>]
                /\ pc' = "done"
                /\ UNCHANGED <<env, steps>>
           ELSE IF ~is_on_curve(CurveOf(params), Q)
           THEN /\ ret' = [kind |-> "error", error |-> ErrPublicKey, point |-> Q, steps |-> <<>>]
                /\ pc' = "done"
                /\ UNCHANGED <<env, steps>>
           ELSE /\ env' = env @@ [G |-> G, Q |-> Q]
                /\ steps' = Append(steps, [step |-> 0, title |-> "Setup", result |-> <<G, Q>>])
                /\ ret' = ret
                /\ pc' = "step1"
    /\ UNCHANGED <<op, params, effects, signed>>
    /\ UNCHANGED sched

\* STEP 1: e = H(m) mod n
EcdsaVerifyStep1 ==
    /\ op = "ecdsa_verify"
    /\ pc = "step1"
    /\ LET h == hash_message(params.message)
           e == IntMod(h, params.n)
       IN  /\ env' = env @@ [e |-> e]
           /\ steps' = Append(steps, [step |-> 1, title |-> "Hash Message", result |-> e])
    /\ effects' = Append(effects, "hash_message")
    /\ pc' = "step2"
    /\ UNCHANGED <<op, params, ret, signed>>
    /\ UNCHANGED sched

\* STEP 2: w = mod_inverse(s, n), whose ValueError is not caught
EcdsaVerifyStep2 ==
    /\ op = "ecdsa_verify"
    /\ pc = "step2"
    /\ LET w == mod_inverse(params.s, params.n)
       IN  IF w.exc # "none"
           THEN /\ ret' = Raised(w.exc)
                /\ pc' = "done"
                /\ UNCHANGED <<env, steps>>
           ELSE /\ env' = env @@ [w |-> w.val]
                /\ steps' = Append(steps, [step |-> 2, title |-> "Compute w = s^(-1) mod n",
                                           result |-> w.val])
                /\ ret' = ret
                /\ pc' = "step3"
    /\ effects' = Append(effects, "mod_inverse")
    /\ UNCHANGED <<op, params, signed>>
    /\ UNCHANGED sched

\* STEP 3: u1 = e * w mod n
EcdsaVerifyStep3 ==
    /\ op = "ecdsa_verify"
    /\ pc = "step3"
    /\ LET u1 == (env.e * env.w) % params.n
       IN  /\ env' = env @@ [u1 |-> u1]
           /\ steps' = Append(steps, [step |-> 3, title |-> "Compute u1", result |-> u1])
    /\ pc' = "step4"
    /\ UNCHANGED <<op, params, ret, effects, signed>>
    /\ UNCHANGED sched

\* STEP 4: u2 = r * w mod n
EcdsaVerifyStep4 ==
    /\ op = "ecdsa_verify"
    /\ pc = "step4"
    /\ LET u2 == (params.r * env.w) % params.n
       IN  /\ env' = env @@ [u2 |-> u2]
           /\ steps' = Append(steps, [step |-> 4, title |-> "Compute u2", result |-> u2])
    /\ pc' = "step5"
    /\ UNCHANGED <<op, params, ret, effects, signed>>
    /\ UNCHANGED sched

\* STEP 5: u1G = u1 x G, which must not be the point at infinity
EcdsaVerifyStep5 ==
    /\ op = "ecdsa_verify"
    /\ pc = "step5"
    /\ LET u1G == scalar_multiply(CurveOf(params), env.u1, env.G, TRUE)
       IN  IF u1G.exc # "none"
           THEN /\ ret' = Raised(u1G.exc)
                /\ pc' = "done"
                /\ UNCHANGED <<env, steps>>
           ELSE IF u1G.val = None
           THEN /\ ret' = [kind |-> "error", error |-> ErrU1G, steps |-> steps]
                /\ pc' = "done"
                /\ env' = env @@ [u1G |-> u1G.val]
                /\ UNCHANGED steps
           ELSE /\ env' = env @@ [u1G |-> u1G.val]
                /\ steps' = Append(steps, [step |-> 5, title |-> "Compute u1 x G",
                                           result |-> u1G.val,
                                           scalar_multiplication_steps |-> First5(u1G.steps)])
                /\ ret' = ret
                /\ pc' = "step6"
    /\ effects' = Append(effects, "scalar_multiply")
    /\ UNCHANGED <<op, params, signed>>
    /\ UNCHANGED sched

\* STEP 6: u2Q = u2 x Q, which must not be the point at infinity
EcdsaVerifyStep6 ==
    /\ op = "ecdsa_verify"
    /\ pc = "step6"
    /\ LET u2Q == scalar_multiply(CurveOf(params), env.u2, env.Q, TRUE)
       IN  IF u2Q.exc # "none"
           THEN /\ ret' = Raised(u2Q.exc)
                /\ pc' = "done"
                /\ UNCHANGED <<env, steps>>
           ELSE IF u2Q.val = None
           THEN /\ ret' = [kind |-> "error", error |-> ErrU2Q, steps |-> steps]
                /\ pc' = "done"
                /\ env' = env @@ [u2Q |-> u2Q.val]
                /\ UNCHANGED steps
           ELSE /\ env' = env @@ [u2Q |-> u2Q.val]
                /\ steps' = Append(steps, [step |-> 6, title |-> "Compute u2 x Q",
                                           result |-> u2Q.val,
                                           scalar_multiplication_steps |-> First5(u2Q.steps)])
                /\ ret' = ret
                /\ pc' = "step7"
    /\ effects' = Append(effects, "scalar_multiply")
    /\ UNCHANGED <<op, params, signed>>
    /\ UNCHANGED sched

\* STEP 7: verification_point = u1G + u2Q, which must not be the point at infinity
EcdsaVerifyStep7 ==
    /\ op = "ecdsa_verify"
    /\ pc = "step7"
    /\ LET verification_point == point_add(CurveOf(params), env.u1G, env.u2Q)
       IN  IF verification_point.exc # "none"
           THEN /\ ret' = Raised(verification_point.exc)
                /\ pc' = "done"
                /\ UNCHANGED <<env, steps>>
           ELSE IF verification_point.val = None
           THEN /\ ret' = [kind |-> "error", error |-> ErrSum, steps |-> steps]
                /\ pc' = "done"
                /\ env' = env @@ [verification_point |-> verification_point.val]
                /\ UNCHANGED steps
           ELSE /\ env' = env @@ [verification_point |-> verification_point.val]
                /\ steps' = Append(steps, [step |-> 7, title |-> "Compute Verification Point",
                                           result |-> verification_point.val])
                /\ ret' = ret
                /\ pc' = "step8"
    /\ effects' = Append(effects, "point_add")
    /\ UNCHANGED <<op, params, signed>>
    /\ UNCHANGED sched

\* STEP 8: is_valid = (vx mod n == r), and the result
EcdsaVerifyStep8 ==
    /\ op = "ecdsa_verify"
    /\ pc = "step8"
    /\ LET vx == env.verification_point[1]
           v == vx % params.n
           is_valid == (v = params.r)
           trace == Append(steps, [step |-> 8, title |-> "Verify Signature", result |-> is_valid])
       IN  /\ steps' = trace
           /\ ret' = [kind |-> "success", valid |-> is_valid, verification_value |-> v,
                      expected_value |-> params.r,
                      verification_point |-> env.verification_point, steps |-> trace]
    /\ pc' = "done"
    /\ UNCHANGED <<op, params, env, effects, signed>>
    /\ UNCHANGED sched

NextEcdsa ==
    \/ Call_ecdsa_sign
    \/ EcdsaSignStep0
    \/ EcdsaSignStep1
    \/ EcdsaSignStep2
    \/ EcdsaSignStep3
    \/ EcdsaSignStep4
    \/ EcdsaSignStep5
    \/ EcdsaSignStep6
    \/ Call_ecdsa_verify_signed
    \/ Call_ecdsa_verify
    \/ EcdsaVerifyStep0
    \/ EcdsaVerifyStep1
    \/ EcdsaVerifyStep2
    \/ EcdsaVerifyStep3
    \/ EcdsaVerifyStep4
    \/ EcdsaVerifyStep5
    \/ EcdsaVerifyStep6
    \/ EcdsaVerifyStep7
    \/ EcdsaVerifyStep8
    \/ Discard

SpecEcdsa == Init /\ [][NextEcdsa]_vars

(***************************************************************************)
(* The four pipelines together.                                            *)
(***************************************************************************)
Next ==
    \/ NextDsa
    \/ NextEcdsa

Spec == Init /\ [][Next]_vars

(***************************************************************************)
(* The server: two threads serve requests to the four routes.  The frame   *)
(* of the running thread is in op, pc, params, env, steps, ret, effects;   *)
(* the frame of the other thread is sched.peer.  The threads are switched  *)
(* between any two stages.  Before the threads are switched for the first  *)
(* time, one call runs from its request to its return with no other, and   *)
(* what it returned is kept in sched.alone.                                *)
(***************************************************************************)
\* the bodies of the requests that the clients send
Requests ==
    { [op |-> "dsa_sign",
       params |-> [p |-> 23, q |-> 11, g |-> 4, x |-> 3, k |-> 7, message |-> "hi"]],
      [op |-> "dsa_sign",
       params |-> [p |-> 23, q |-> 11, g |-> 4, x |-> 3, k |-> 11, message |-> "hi"]],
      [op |-> "dsa_verify",
       params |-> [p |-> 23, q |-> 11, g |-> 4, y |-> 18, r |-> 8, s |-> 6, message |-> "hi"]],
      [op |-> "dsa_verify",
       params |-> [p |-> 23, q |-> 11, g |-> 4, y |-> 18, r |-> 8, s |-> 6,
                   message |-> "Test"]],
      [op |-> "ecdsa_sign",
       params |-> EcdsaDomain(2, 1, 5, 0, 1, 7) @@ [d |-> 2, k |-> 3, message |-> "hi"]],
      [op |-> "ecdsa_sign",
       params |-> EcdsaDomain(2, 3, 97, 3, 6, 5) @@ [d |-> 3, k |-> 2, message |-> "Test"]],
      [op |-> "ecdsa_verify",
       params |-> EcdsaDomain(2, 1, 5, 0, 1, 7)
                    @@ [Qx |-> 1, Qy |-> 3, r |-> 3, s |-> 4, message |-> "hi"]],
      [op |-> "ecdsa_verify",
       params |-> EcdsaDomain(2, 1, 5, 0, 1, 7)
                    @@ [Qx |-> 1, Qy |-> 3, r |-> 3, s |-> 4, message |-> "Test"]] }

\* the frame of the running thread
RunningFrame ==
    [op |-> op, pc |-> pc, params |-> params, env |-> env, steps |-> steps,
     ret |-> ret, effects |-> effects]

\* a thread is in the middle of a call
MidCall(frame) == frame.pc \notin {"idle", "done"}

\* a trace list that all calls would share
shared_steps(saved, current) == current

\* the trace list a resumed thread appends to: steps = [] makes the list a
\* local of the call, so the thread finds the list it left
own_steps(saved, current) == saved

\* a route hands the body of a request to its pipeline
Request ==
    /\ Idle
    /\ \E req \in Requests :
         /\ Enter(req.op, req.params)
         /\ pc' = IF req.op \in {"dsa_sign", "dsa_verify"} THEN "step1" ELSE "step0"
    /\ signed' = NoSig
    /\ sched' = [sched EXCEPT !.preempted = FALSE]

\* the first call returns before any switch of threads: its result is kept
ReturnAlone ==
    /\ pc = "done"
    /\ sched.alone.kind = "none"
    /\ sched' = [sched EXCEPT !.alone = [kind |-> "call", op |-> op, params |-> params,
                                         ret |-> ret, steps |-> steps]]
    /\ op' = "none"
    /\ pc' = "idle"
    /\ params' = NoEnv
    /\ env' = NoEnv
    /\ steps' = <<>>
    /\ ret' = NoRet
    /\ effects' = <<>>
    /\ UNCHANGED signed

\* the running thread is suspended where it is and the other one resumed
Switch ==
    /\ sched.alone.kind = "call"
    /\ op' = sched.peer.op
    /\ pc' = sched.peer.pc
    /\ params' = sched.peer.params
    /\ env' = sched.peer.env
    /\ steps' = own_steps(sched.peer.steps, steps)
    /\ ret' = sched.peer.ret
    /\ effects' = sched.peer.effects
    /\ sched' = [sched EXCEPT !.peer = RunningFrame,
                              !.peer_preempted = sched.preempted \/ MidCall(RunningFrame),
                              !.preempted = sched.peer_preempted]
    /\ UNCHANGED signed

NextServer ==
    \/ Request
    \/ ReturnAlone
    \/ Switch
    \/ Discard
    \/ DsaSignStep1
    \/ DsaSignStep2
    \/ DsaSignStep3
    \/ DsaSignStep4
    \/ DsaSignStep5
    \/ DsaVerifyStep1
    \/ DsaVerifyStep2
    \/ DsaVerifyStep3
    \/ DsaVerifyStep4
    \/ DsaVerifyStep5
    \/ DsaVerifyStep6
    \/ EcdsaSignStep0
    \/ EcdsaSignStep1
    \/ EcdsaSignStep2
    \/ EcdsaSignStep3
    \/ EcdsaSignStep4
    \/ EcdsaSignStep5
    \/ EcdsaSignStep6
    \/ EcdsaVerifyStep0
    \/ EcdsaVerifyStep1
    \/ EcdsaVerifyStep2
    \/ EcdsaVerifyStep3
    \/ EcdsaVerifyStep4
    \/ EcdsaVerifyStep5
    \/ EcdsaVerifyStep6
    \/ EcdsaVerifyStep7
    \/ EcdsaVerifyStep8

SpecServer == Init /\ [][NextServer]_vars

(***************************************************************************)
(* Number theory used to state the claims.                                 *)
(***************************************************************************)
Max(S) == CHOOSE n \in S : \A k \in S : k <= n

\* gcd(a, b) for a >= 0, b >= 1
GCD(a, b) == Max({d \in 1..b : a % d = 0 /\ b % d = 0})

IsPrime(n) == n >= 2 /\ \A d \in 2..(n - 1) : n % d # 0

ModInverseDone == op = "mod_inverse" /\ pc = "done"

\* C4: for m > 1 and any a (negative or >= m included) with gcd(a mod m, m) = 1,
\* mod_inverse(a, m) returns x with 0 <= x < m and (a * x) mod m = 1.
C4_ModInverseCorrect ==
    (/\ ModInverseDone
     /\ params.m > 1
     /\ GCD(params.a % params.m, params.m) = 1)
    => /\ ret.kind = "value"
       /\ ret.val \in 0..(params.m - 1)
       /\ (params.a * ret.val) % params.m = 1

C4_Witness ==
    /\ ModInverseDone
    /\ params.a = -3
    /\ params.m = 7
    /\ ret.kind = "value"
    /\ ret.val = 2

\* C5: for m > 1 and any a with gcd(a mod m, m) # 1 (a = 4, m = 8; a = 0),
\* mod_inverse(a, m) raises the no-inverse error (ValueError) and returns no value.
C5_ModInverseFails ==
    (/\ ModInverseDone
     /\ params.m > 1
     /\ GCD(params.a % params.m, params.m) # 1)
    => /\ ret.kind = "exception"
       /\ ret.exc = "ValueError"

C5_Witness ==
    /\ ModInverseDone
    /\ params.a = 4
    /\ params.m = 8
    /\ ret.kind = "exception"

(***************************************************************************)
(* DSA claims.                                                             *)
(***************************************************************************)
\* p prime, q prime dividing p - 1, g of order q modulo p
ValidDsaDomain(p, q, g) ==
    /\ IsPrime(p)
    /\ IsPrime(q)
    /\ (p - 1) % q = 0
    /\ g \in 2..(p - 1)
    /\ pow_mod(g, q, p) = 1

\* the inverse of e modulo a prime q, for e not a multiple of q
InverseModPrime(e, q) == CHOOSE i \in 1..(q - 1) : (i * e) % q = 1

DsaSignDone == op = "dsa_sign" /\ pc = "done"

DsaVerifyDone == op = "dsa_verify" /\ pc = "done"

\* verify has run on the signature a successful sign returned
DsaVerifiedSigned == DsaVerifyDone /\ signed.kind = "dsa_sign"

\* C1: for valid domain parameters and x, k in [1, q-1], whenever dsa sign
\* succeeds, dsa verify with the same p, q, g, the returned y and (r, s) and the
\* same message returns valid = true; and for p=23, q=11, g=4, x=3, k=7,
\* message "hi", sign succeeds with nonzero (r, s).
C1_DsaRoundTrip ==
    /\ (/\ DsaVerifiedSigned
        /\ params.message = signed.message
        /\ ValidDsaDomain(params.p, params.q, params.g)
        /\ signed.x \in 1..(params.q - 1)
        /\ signed.k \in 1..(params.q - 1))
       => (ret.kind = "success" /\ ret.valid)
    /\ (/\ DsaSignDone
        /\ params = [p |-> 23, q |-> 11, g |-> 4, x |-> 3, k |-> 7, message |-> "hi"])
       => (/\ ret.kind = "success"
           /\ ret.signature.r \in 1..10
           /\ ret.signature.s \in 1..10)

C1_Witness ==
    /\ DsaVerifiedSigned
    /\ params = [p |-> 23, q |-> 11, g |-> 4, y |-> 18, r |-> 8, s |-> 6, message |-> "hi"]
    /\ signed = [kind |-> "dsa_sign", x |-> 3, k |-> 7, message |-> "hi"]
    /\ ret.kind = "success"
    /\ ret.valid

\* C3 as stated: a signature that sign produced for m, verified against any
\* other message, gives valid = false and no exception.  (Stated here for valid
\* domain parameters only, the case the claim is meant for.)
C3_TamperAlwaysRejected ==
    (/\ DsaVerifiedSigned
     /\ params.message # signed.message
     /\ ValidDsaDomain(params.p, params.q, params.g))
    => (ret.kind = "success" /\ ret.valid = FALSE)

\* the nonce that the tampered verification reconstructs:
\* k' = k * (H(m') + x*r) / (H(m) + x*r) mod q
TamperedNonce ==
    LET q  == params.q
        h  == IntMod(hash_message(signed.message), q)
        h2 == IntMod(hash_message(params.message), q)
        xr == (signed.x * params.r) % q
    IN  (signed.k * ((h2 + xr) % q) * InverseModPrime((h + xr) % q, q)) % q

\* C3 amended: for valid domain parameters, verifying a signature that sign
\* produced for m against another message m' never raises; it returns
\* valid = true exactly when (g^k' mod p) mod q = r for the nonce k' above,
\* which is the case whenever H(m') = H(m) modulo q.
C3_TamperDecision ==
    (/\ DsaVerifiedSigned
     /\ params.message # signed.message
     /\ ValidDsaDomain(params.p, params.q, params.g))
    => /\ ret.kind = "success"
       /\ ret.valid = (pow_mod(params.g, TamperedNonce, params.p) % params.q = params.r)
       /\ (IntMod(hash_message(params.message), params.q)
             = IntMod(hash_message(signed.message), params.q)) => ret.valid

\* a tampered message with the same hash modulo q is accepted
C3_Witness ==
    /\ DsaVerifiedSigned
    /\ params.p = 23
    /\ params.g = 4
    /\ signed.message = "Hello"
    /\ params.message = "d"
    /\ ret.kind = "success"
    /\ ret.valid

\* a tampered message is rejected
C3_WitnessRejected ==
    /\ DsaVerifiedSigned
    /\ params.p = 23
    /\ params.g = 4
    /\ signed.message = "hi"
    /\ params.message = "Hello"
    /\ ret.kind = "success"
    /\ ret.valid = FALSE

(***************************************************************************)
(* Curve group claims.                                                     *)
(***************************************************************************)
PointAddDone == op = "point_add" /\ pc = "done"

\* C10: for every curve and every point P, finite or Infinity,
\* point_add(P, Infinity) = P and point_add(Infinity, P) = P, and no modular
\* inverse is computed.
C10_Identity ==
    /\ (PointAddDone /\ params.Q = None)
       => (ret.kind = "value" /\ ret.val = params.P /\ effects = <<>>)
    /\ (PointAddDone /\ params.P = None)
       => (ret.kind = "value" /\ ret.val = params.Q /\ effects = <<>>)

C10_Witness ==
    /\ PointAddDone
    /\ params.curve = [a |-> 2, b |-> 1, p |-> 5]
    /\ params.P = None
    /\ params.Q = <<1, 2>>
    /\ ret.kind = "value"
    /\ ret.val = <<1, 2>>

(***************************************************************************)
(* Pipeline claims.                                                        *)
(***************************************************************************)
Pipelines == {"dsa_sign", "dsa_verify", "ecdsa_sign", "ecdsa_verify"}

EcdsaSignDone == op = "ecdsa_sign" /\ pc = "done"

EcdsaVerifyDone == op = "ecdsa_verify" /\ pc = "done"

\* the documented tiny curve and generator
TinyCurveParams ==
    /\ params.a = 2
    /\ params.b = 3
    /\ params.p = 97
    /\ params.Gx = 3
    /\ params.Gy = 6
    /\ params.n = 5

\* C2: on the documented example (a=2, b=3, p=97, G=(3,6), n=5, d=3, k=2,
\* message "Test") ecdsa sign returns a success result, and ecdsa verify with
\* the returned (r, s, Q) and the same message returns valid = true.
C2_DocumentedRoundTrip ==
    /\ (/\ EcdsaSignDone
        /\ TinyCurveParams
        /\ params.d = 3
        /\ params.k = 2
        /\ params.message = "Test")
       => ret.kind = "success"
    /\ (/\ EcdsaVerifyDone
        /\ TinyCurveParams
        /\ signed = [kind |-> "ecdsa_sign", d |-> 3, k |-> 2, message |-> "Test"]
        /\ params.message = "Test")
       => (ret.kind = "success" /\ ret.valid)

\* C6: every call of the four pipelines returns a structured result, a success
\* payload or an error kind, with the trace; none ends in an exception.
C6_AlwaysStructured ==
    (op \in Pipelines /\ pc = "done")
    => (ret.kind \in {"success", "error"} /\ "steps" \in DOMAIN ret)

\* y^2 = x^3 + a*x + b (mod p) fails for the pair pt
OffCurve(a, b, p, pt) ==
    (pt[2] * pt[2]) % p # (pt[1] * pt[1] * pt[1] + a * pt[1] + b) % p

GeneratorOff == OffCurve(params.a, params.b, params.p, <<params.Gx, params.Gy>>)

PublicKeyOff == OffCurve(params.a, params.b, params.p, <<params.Qx, params.Qy>>)

\* C7: when G (sign, verify) or Q (verify) is not on the curve, the call
\* returns a curve error with an empty trace that names the offending point,
\* and the call makes no scalar multiplication, hashing or modular inverse.
C7_CurveValidationFirst ==
    /\ (op \in {"ecdsa_sign", "ecdsa_verify"} /\ GeneratorOff)
       => /\ steps = <<>>
          /\ effects = <<>>
          /\ pc \in {"step0", "done"}
          /\ pc = "done" => /\ ret.kind = "error"
                            /\ ret.error \in {ErrGeneratorSign, ErrGenerator}
                            /\ ret.point = <<params.Gx, params.Gy>>
                            /\ ret.steps = <<>>
    /\ (op = "ecdsa_verify" /\ ~GeneratorOff /\ PublicKeyOff)
       => /\ steps = <<>>
          /\ effects = <<>>
          /\ pc \in {"step0", "done"}
          /\ pc = "done" => /\ ret.kind = "error"
                            /\ ret.error = ErrPublicKey
                            /\ ret.point = <<params.Qx, params.Qy>>
                            /\ ret.steps = <<>>

C7_Witness ==
    /\ EcdsaVerifyDone
    /\ TinyCurveParams
    /\ params.Qx = 3
    /\ params.Qy = 7
    /\ ret.kind = "error"
    /\ ret.error = ErrPublicKey
    /\ effects = <<>>

\* the order of the subgroup: q for DSA, n for ECDSA
Order == IF op = "dsa_sign" THEN params.q ELSE params.n

SignDone == (op = "dsa_sign" \/ op = "ecdsa_sign") /\ pc = "done"

\* C8: every success result of dsa sign and of ecdsa sign carries 1 <= r, s <=
\* q-1 (n-1); whenever r or s is computed as 0 the call returns the
\* zero-component error, with no signature and no success flag.
C8_SignatureNonzero ==
    /\ (SignDone /\ ret.kind = "success")
       => /\ ret.signature.r \in 1..(Order - 1)
          /\ ret.signature.s \in 1..(Order - 1)
    /\ (SignDone /\ "r" \in DOMAIN env /\ env.r = 0)
       => /\ ret.kind = "error"
          /\ ret.error = ErrRZero
          /\ "signature" \notin DOMAIN ret
    /\ (SignDone /\ "s" \in DOMAIN env /\ env.s = 0)
       => /\ ret.kind = "error"
          /\ ret.error = ErrSZero
          /\ "signature" \notin DOMAIN ret

\* s is computed as 0 on the documented DSA parameters
C8_Witness ==
    /\ SignDone
    /\ op = "dsa_sign"
    /\ params.p = 23
    /\ params.g = 4
    /\ "s" \in DOMAIN env
    /\ env.s = 0
    /\ ret.kind = "error"

\* C9: dsa verify and ecdsa verify never return valid = true when the supplied
\* r = 0 or the supplied s = 0.
C9_ZeroComponentRejected ==
    (/\ op \in {"dsa_verify", "ecdsa_verify"}
     /\ pc = "done"
     /\ (params.r = 0 \/ params.s = 0))
    => ~(ret.kind = "success" /\ ret.valid)

(***************************************************************************)
(* Group law claims.                                                       *)
(***************************************************************************)
\* both points of a point_add call pass is_on_curve
BothOnCurve ==
    /\ is_on_curve(params.curve, params.P)
    /\ is_on_curve(params.curve, params.Q)

\* C11: on a curve with prime modulus, for all points P, Q that are on it,
\* Infinity included, point_add(P, Q) and point_add(Q, P) either return the
\* same point or both fail.
C11_Commutative ==
    (PointAddDone /\ IsPrime(params.curve.p) /\ BothOnCurve)
    => LET swapped == point_add(params.curve, params.Q, params.P)
       IN  \/ ret.kind = "value" /\ swapped.exc = "none" /\ swapped.val = ret.val
           \/ ret.kind = "exception" /\ swapped.exc # "none"

\* (0,1) + (1,2) = (0,4) on y^2 = x^3 + 2x + 1 (mod 5)
C11_Witness ==
    /\ PointAddDone
    /\ params.curve = [a |-> 2, b |-> 1, p |-> 5]
    /\ params.P = <<0, 1>>
    /\ params.Q = <<1, 2>>
    /\ ret.kind = "value"
    /\ ret.val = <<0, 4>>

ScalarMultiplyDone == op = "scalar_multiply" /\ pc = "done"

\* 4a^3 + 27b^2 # 0 (mod p)
NonSingular(curve) ==
    (4 * curve.a * curve.a * curve.a + 27 * curve.b * curve.b) % curve.p # 0

\* P + P + ... + P (k times), built with point_add from Infinity
RECURSIVE RepeatedSum(_, _, _)
RepeatedSum(curve, k, P) ==
    IF k = 0
    THEN PointOk(None, <<>>)
    ELSE One({ IF prev.exc # "none" THEN prev ELSE point_add(curve, prev.val, P) :
               prev \in {RepeatedSum(curve, k - 1, P)} })

\* C12: on a non-singular curve with prime modulus p > 3, for every on-curve
\* point P and every k >= 0, scalar_multiply(k, P) equals the k-fold sum of P
\* built with point_add from Infinity (both failing counted as equal).
C12_ScalarMultiplyIsRepeatedSum ==
    (/\ ScalarMultiplyDone
     /\ IsPrime(params.curve.p)
     /\ params.curve.p > 3
     /\ NonSingular(params.curve)
     /\ params.k >= 0)
    => LET sum == RepeatedSum(params.curve, params.k, params.P)
       IN  \/ ret.kind = "value" /\ sum.exc = "none" /\ ret.val = sum.val
           \/ ret.kind = "exception" /\ sum.exc # "none"

\* C12 for points whose coordinates are reduced modulo p
C12_ReducedPointsAgree ==
    (/\ ScalarMultiplyDone
     /\ IsPrime(params.curve.p)
     /\ params.curve.p > 3
     /\ NonSingular(params.curve)
     /\ params.k >= 0
     /\ params.P # None => (params.P[1] < params.curve.p /\ params.P[2] < params.curve.p))
    => LET sum == RepeatedSum(params.curve, params.k, params.P)
       IN  ret.kind = "value" /\ sum.exc = "none" /\ ret.val = sum.val

(***************************************************************************)
(* DSA trace claims.                                                       *)
(***************************************************************************)
\* the step numbers of the records of a trace
StepNumbers(trace) == [i \in 1..Len(trace) |-> trace[i].step]

\* C13: a successful dsa sign returns a trace of exactly five records, one for
\* each of the stages public key, hash, r, k inverse and s, in that order.
C13_FiveRecords ==
    (DsaSignDone /\ ret.kind = "success")
    => /\ Len(ret.steps) = 5
       /\ StepNumbers(ret.steps) = <<1, 2, 3, 4, 5>>

\* C20: whenever (g^k mod p) mod q = 0, dsa sign returns the zero-component
\* error with a trace of exactly two records, public key then hash; the
\* k-inverse and s stages are not executed, so no modular inverse is requested
\* and the call does not raise, whether k is invertible modulo q or not.
C20_RZeroStopsSign ==
    (DsaSignDone /\ pow_mod(params.g, params.k, params.p) % params.q = 0)
    => /\ ret.kind = "error"
       /\ ret.error = ErrRZero
       /\ Len(ret.steps) = 2
       /\ ret.steps[1].step = 1
       /\ ret.steps[1].title = "Compute Public Key"
       /\ ret.steps[2].step = 2
       /\ ret.steps[2].title = "Hash Message"
       /\ effects = <<"pow_mod", "hash_message", "pow_mod">>
       /\ DOMAIN env = {"y", "h_mod_q", "r"}

\* r = 0 with a nonce that has no inverse modulo q
C20_Witness ==
    /\ DsaSignDone
    /\ params.k = params.q
    /\ params.g > 1
    /\ env.r = 0
    /\ ret.kind = "error"
    /\ Len(ret.steps) = 2

(***************************************************************************)
(* Curve invariants.                                                       *)
(***************************************************************************)
CurveCallDone == PointAddDone \/ ScalarMultiplyDone

\* the points handed to a point_add or scalar_multiply call pass is_on_curve
ArgumentsOnCurve ==
    IF op = "point_add" THEN BothOnCurve ELSE is_on_curve(params.curve, params.P)

\* C15: for every curve with prime p and all points that is_on_curve accepts,
\* coordinates as the caller gave them, every mod_inverse call that point_add
\* makes, directly or inside scalar_multiply, has a denominator that is not 0
\* modulo p, and point_add never fails with the no-inverse error.
C15_NoZeroDenominator ==
    (/\ CurveCallDone
     /\ IsPrime(params.curve.p)
     /\ ArgumentsOnCurve
     /\ op = "scalar_multiply" => params.k >= 0)
    => /\ \A i \in DOMAIN effects : effects[i] % params.curve.p # 0
       /\ ret.kind = "value"

\* C16: on a curve with prime modulus p > 3, for all P, Q that satisfy
\* is_on_curve the point that point_add(P, Q) returns satisfies is_on_curve,
\* and so does every accumulator and running point that scalar_multiply(k, P)
\* holds at any iteration.
C16_Closure ==
    /\ (/\ PointAddDone
        /\ IsPrime(params.curve.p)
        /\ params.curve.p > 3
        /\ BothOnCurve
        /\ ret.kind = "value")
       => is_on_curve(params.curve, ret.val)
    /\ (/\ ScalarMultiplyDone
        /\ IsPrime(params.curve.p)
        /\ params.curve.p > 3)
       => /\ \A i \in DOMAIN env.held :
               /\ is_on_curve(params.curve, env.held[i][1])
               /\ is_on_curve(params.curve, env.held[i][2])
          /\ ret.kind = "value" => is_on_curve(params.curve, ret.val)

\* 3 * (0,1) on y^2 = x^3 + 2x + 1 (mod 5): the loop has held three pairs
C16_Witness ==
    /\ ScalarMultiplyDone
    /\ params.curve = [a |-> 2, b |-> 1, p |-> 5]
    /\ params.P = <<0, 1>>
    /\ params.k = 3
    /\ Len(env.held) = 3
    /\ ret.kind = "value"
    /\ ret.val # None

\* the two points of a point_add call are finite
BothFinite == params.P # None /\ params.Q # None

\* the slope that the group law prescribes for P + Q, as a fraction modulo p
SlopeOf(curve, P, Q) ==
    IF P = Q
    THEN [num |-> (3 * P[1] * P[1] + curve.a) % curve.p, den |-> (2 * P[2]) % curve.p]
    ELSE [num |-> (Q[2] - P[2]) % curve.p, den |-> (Q[1] - P[1]) % curve.p]

\* C17: for every on-curve finite point P = (x, y), point_add(P, (x, -y mod p))
\* is Infinity, and point_add(P, P) is Infinity when y = 0; in all other cases
\* with both points finite the result is the finite point (x3, y3) with
\* x3 = lam^2 - x1 - x2 mod p, y3 = lam*(x1 - x3) - y1 mod p, both in [0, p).
C17_VerticalCases ==
    (PointAddDone /\ IsPrime(params.curve.p) /\ BothOnCurve /\ BothFinite)
    => LET p  == params.curve.p
           x1 == params.P[1]
           y1 == params.P[2]
           x2 == params.Q[1]
           y2 == params.Q[2]
       IN  IF x2 = x1 /\ y2 = (0 - y1) % p
           THEN ret = [kind |-> "value", val |-> None]
           ELSE IF params.P = params.Q /\ y1 = 0
           THEN ret = [kind |-> "value", val |-> None]
           ELSE /\ ret.kind = "value"
                /\ ret.val # None
                /\ ret.val[1] \in 0..(p - 1)
                /\ ret.val[2] \in 0..(p - 1)
                /\ \E lam \in 0..(p - 1) :
                     /\ (lam * SlopeOf(params.curve, params.P, params.Q).den) % p
                          = SlopeOf(params.curve, params.P, params.Q).num
                     /\ ret.val[1] = (lam * lam - x1 - x2) % p
                     /\ ret.val[2] = (lam * (x1 - ret.val[1]) - y1) % p

\* C18: for every k < 0 and every point P, finite or Infinity,
\* scalar_multiply(k, P) fails with the negative-scalar error and returns no
\* point.
C18_NegativeScalarRejected ==
    (ScalarMultiplyDone /\ params.k < 0)
    => ret = Raised("ValueError")

\* C19: with tracing and k > 0, scalar_multiply(k, P) emits exactly one record
\* per bit of k, least-significant bit first, each with the bit value, the
\* operation (Add for 1, Skip for 0) and the resulting accumulator; and the
\* point returned with tracing is the point returned without.
C19_TracePerBit ==
    (/\ ScalarMultiplyDone
     /\ params.show_steps
     /\ params.k > 0
     /\ ret.kind = "value")
    => /\ Len(ret.steps) = BitLength(params.k)
       /\ \A i \in DOMAIN ret.steps :
            /\ {"bit", "operation", "result"} \subseteq DOMAIN ret.steps[i]
            /\ ret.steps[i].bit = Bit(params.k, i - 1)
            /\ ret.steps[i].operation = IF Bit(params.k, i - 1) = 1 THEN "Add"
                                                                      ELSE "Skip (bit=0)"
       /\ ret.val = scalar_multiply(params.curve, params.k, params.P, FALSE).val

(***************************************************************************)
(* Concurrent calls.                                                       *)
(***************************************************************************)
\* the call of a frame is the call that ran alone
SameCallAsAlone(frame) ==
    /\ sched.alone.kind = "call"
    /\ frame.op = sched.alone.op
    /\ frame.params = sched.alone.params

\* C14: with the stages of two calls interleaved in any order, a call returns
\* exactly the result and the trace it returns when it runs alone, so no
\* record of another call is in its trace; and a thread that serves no call
\* holds nothing of the calls it served.
C14_Reentrant ==
    \A frame \in {RunningFrame, sched.peer} :
        /\ (frame.pc = "done" /\ SameCallAsAlone(frame))
           => (frame.ret = sched.alone.ret /\ frame.steps = sched.alone.steps)
        /\ frame.pc = "idle" => frame = IdleFrame

\* the documented dsa sign has returned in a thread that was suspended in the
\* middle of it, while the other thread is in the middle of an ecdsa verify
C14_Witness ==
    /\ pc = "done"
    /\ op = "dsa_sign"
    /\ params.k = 7
    /\ SameCallAsAlone(RunningFrame)
    /\ ret.kind = "success"
    /\ sched.preempted
    /\ sched.peer.op = "ecdsa_verify"
    /\ sched.peer.pc = "step5"
    /\ sched.peer_preempted

(***************************************************************************)
(* ECDSA pipeline claims.                                                  *)
(***************************************************************************)
\* the primitive calls of ecdsa sign, in the order of its stages
SignStageOrder == <<"scalar_multiply", "hash_message", "scalar_multiply", "mod_inverse">>

\* k * G as the sum of k copies of G, for a call whose k is not negative
NonceSum ==
    RepeatedSum(CurveOf(params), params.k, <<params.Gx, params.Gy>>)

\* the public key stage of an ecdsa sign call has returned, the call is over
SignDoneAfterQ ==
    /\ EcdsaSignDone
    /\ "Q" \in DOMAIN env
    /\ params.k >= 0

\* C21: after G is validated the stages of ecdsa sign run in the order
\* Q = d*G, hash, k*G, r, k inverse, s; if k*G is Infinity the call returns the
\* point-at-infinity error with the records curve definition, public key,
\* hash; if k*G is finite and x(kG) mod n = 0 it returns the zero-component
\* error with the k*G record added; in neither case is the inverse of k
\* computed.
C21_EarlyExitsOrdered ==
    /\ op = "ecdsa_sign"
       => /\ Len(effects) <= 4
          /\ effects = SubSeq(SignStageOrder, 1, Len(effects))
          /\ \A i \in DOMAIN steps : i > 1 => steps[i - 1].step < steps[i].step
    /\ (SignDoneAfterQ /\ NonceSum.exc = "none" /\ NonceSum.val = None)
       => /\ ret.kind = "error"
          /\ ret.error = ErrNonce
          /\ StepNumbers(ret.steps) = <<0, 1, 2>>
          /\ ret.steps[1].title = "Curve Definition"
          /\ ret.steps[2].title = "Compute Public Key"
          /\ ret.steps[3].title = "Hash Message"
          /\ effects = SubSeq(SignStageOrder, 1, 3)
    /\ (/\ SignDoneAfterQ
        /\ NonceSum.exc = "none"
        /\ NonceSum.val # None
        /\ NonceSum.val[1] % params.n = 0)
       => /\ ret.kind = "error"
          /\ ret.error = ErrRZero
          /\ StepNumbers(ret.steps) = <<0, 1, 2, 3>>
          /\ ret.steps[4].title = "Compute k x G"
          /\ ret.steps[4].result = NonceSum.val
          /\ effects = SubSeq(SignStageOrder, 1, 3)

\* k = 5 is the order of G = (3, 6) on y^2 = x^3 + 2x + 3 (mod 97)
C21_Witness ==
    /\ EcdsaSignDone
    /\ TinyCurveParams
    /\ params.k = 5
    /\ params.d = 3
    /\ ret.kind = "error"
    /\ ret.error = ErrNonce
    /\ Len(ret.steps) = 3

\* the documented example: 2 * G = (80, 10) and 80 mod 5 = 0
C21_WitnessRZero ==
    /\ EcdsaSignDone
    /\ TinyCurveParams
    /\ params.k = 2
    /\ params.d = 3
    /\ ret.kind = "error"
    /\ ret.error = ErrRZero
    /\ Len(ret.steps) = 4

\* a non-singular curve with prime modulus, and a generator with reduced
\* coordinates whose order is the prime n
ValidEcdsaDomain ==
    LET curve == CurveOf(params)
        G == <<params.Gx, params.Gy>>
    IN  /\ IsPrime(params.p)
        /\ NonSingular(curve)
        /\ params.Gx \in 0..(params.p - 1)
        /\ params.Gy \in 0..(params.p - 1)
        /\ is_on_curve(curve, G)
        /\ IsPrime(params.n)
        /\ RepeatedSum(curve, params.n, G) = PointOk(None, <<>>)

\* verify has run on the signature a successful ecdsa sign returned, with the
\* message that was signed
EcdsaVerifiedSigned ==
    /\ EcdsaVerifyDone
    /\ signed.kind = "ecdsa_sign"
    /\ params.message = signed.message

\* C22: on a non-singular curve with prime modulus, G of prime order n, d and
\* k in [1, n-1] and any message, whenever ecdsa sign succeeds, ecdsa verify
\* with the returned Q, r, s and the same message returns a success result
\* with valid = true, not an error.
C22_EcdsaRoundTrip ==
    (/\ EcdsaVerifiedSigned
     /\ ValidEcdsaDomain
     /\ signed.d \in 1..(params.n - 1)
     /\ signed.k \in 1..(params.n - 1))
    => (ret.kind = "success" /\ ret.valid)

\* C22 for messages whose hash is not 0 modulo n
C22_NonzeroHashRoundTrip ==
    (/\ EcdsaVerifiedSigned
     /\ ValidEcdsaDomain
     /\ signed.d \in 1..(params.n - 1)
     /\ signed.k \in 1..(params.n - 1)
     /\ IntMod(hash_message(params.message), params.n) # 0)
    => (ret.kind = "success" /\ ret.valid)

\* a point with its coordinates reduced modulo p
Reduced(curve, point) ==
    IF point = None THEN None ELSE <<point[1] % curve.p, point[2] % curve.p>>

\* k * P in the group of the curve: the k-fold sum of the reduced point
GroupMultiple(curve, k, point) == RepeatedSum(curve, k, Reduced(curve, point)).val

\* the decision of ecdsa verify that C23 prescribes, from the parameters
VerifyDecision ==
    LET curve == CurveOf(params)
        n   == params.n
        w   == CHOOSE i \in 0..(n - 1) : (i * params.s) % n = 1
        e   == IntMod(hash_message(params.message), n)
        u1  == (e * w) % n
        u2  == (params.r * w) % n
        u1G == GroupMultiple(curve, u1, <<params.Gx, params.Gy>>)
        u2Q == GroupMultiple(curve, u2, <<params.Qx, params.Qy>>)
        sum == point_add(curve, u1G, u2Q).val
    IN  IF u1G = None THEN [kind |-> "error", error |-> ErrU1G, last |-> 4]
        ELSE IF u2Q = None THEN [kind |-> "error", error |-> ErrU2Q, last |-> 5]
        ELSE IF sum = None THEN [kind |-> "error", error |-> ErrSum, last |-> 6]
        ELSE [kind |-> "success", valid |-> (sum[1] % n = params.r), last |-> 8]

\* C23: with G and Q on the curve and s invertible modulo n, ecdsa verify
\* returns a point-at-infinity error, with the trace up to that stage and no
\* validity flag, exactly when u1*G, u2*Q or their sum is Infinity, tested in
\* that order; otherwise it returns success with valid = true if and only if
\* x(u1*G + u2*Q) mod n = r, for u1 = e*w mod n, u2 = r*w mod n, w = s^-1 mod n.
C23_VerifyDecision ==
    (/\ EcdsaVerifyDone
     /\ IsPrime(params.p)
     /\ ~GeneratorOff
     /\ ~PublicKeyOff
     /\ GCD(params.s % params.n, params.n) = 1)
    => /\ ret.kind = VerifyDecision.kind
       /\ StepNumbers(ret.steps) = [i \in 1..(VerifyDecision.last + 1) |-> i - 1]
       /\ ret.kind = "error" => (ret.error = VerifyDecision.error /\ "valid" \notin DOMAIN ret)
       /\ ret.kind = "success" => ret.valid = VerifyDecision.valid

\* C23 for generators and public points with coordinates in [0, p)
C23_ReducedVerifyDecision ==
    (/\ EcdsaVerifyDone
     /\ params.Gx < params.p
     /\ params.Gy < params.p
     /\ params.Qx < params.p
     /\ params.Qy < params.p)
    => C23_VerifyDecision

(***************************************************************************)
(* C24: extended_gcd and the calls mod_inverse makes to it.                *)
(***************************************************************************)
ExtendedGcdDone == op = "extended_gcd" /\ pc = "done"

\* the greatest common divisor of a, b >= 0, with gcd(0, 0) = 0
NatGcd(a, b) ==
    IF a = 0 /\ b = 0 THEN 0
    ELSE Max({d \in 1..Max({a, b}) : a % d = 0 /\ b % d = 0})

\* every recursion level received non-negative arguments
NonNegativeCalls(calls) ==
    \A i \in 1..Len(calls) : calls[i][1] >= 0 /\ calls[i][2] >= 0

\* C24: for a, b >= 0 extended_gcd(a, b) returns, after finitely many levels
\* whose first argument strictly decreases down to 0, a triple (g, x, y) with
\* g = gcd(a, b) and a*x + b*y = g, which is (b, 0, 1) when a = 0; and the
\* calls mod_inverse(a, m) makes to it, for m >= 1 and any signed a, begin
\* with (a mod m, m) and have non-negative arguments at every level.
C24_ExtendedGcd ==
    /\ ExtendedGcdDone =>
          /\ ret.kind = "value"
          /\ ret.val[1] = NatGcd(params.a, params.b)
          /\ params.a * ret.val[2] + params.b * ret.val[3] = ret.val[1]
          /\ params.a = 0 => ret.val = <<params.b, 0, 1>>
          /\ env.calls[1] = <<params.a, params.b>>
          /\ env.calls[Len(env.calls)][1] = 0
          /\ \A i \in 1..(Len(env.calls) - 1) :
                env.calls[i + 1][1] < env.calls[i][1]
          /\ NonNegativeCalls(env.calls)
    /\ ModInverseDone =>
          /\ env.calls[1] = <<params.a % params.m, params.m>>
          /\ env.calls[Len(env.calls)][1] = 0
          /\ NonNegativeCalls(env.calls)

\* mod_inverse was called with a negative a and its extended_gcd recursed
\* at least twice
C24_Witness ==
    /\ ModInverseDone
    /\ params.a < 0
    /\ params.m > 1
    /\ Len(env.calls) >= 3

\* extended_gcd was called with a > b > 0, recursed and returned a gcd > 1
C24_WitnessGcd ==
    /\ ExtendedGcdDone
    /\ params.a > params.b
    /\ params.b > 0
    /\ Len(env.calls) >= 3
    /\ ret.val[1] > 1

====
